---- MODULE Spec2Model ----
(***************************************************************************)
(* A model of the Derivtrader signal page (src/unnamed/part_000, the       *)
(* reconnecting variant; part_001 and options_script.js hold the same      *)
(* processTick / generateSignal / executeTrade bodies).                    *)
(*                                                                         *)
(* The state is the page's global variables and the DOM fields the         *)
(* handlers read back; every action is one handler (or one promise         *)
(* continuation) run to completion, as the browser's single thread runs    *)
(* it.  Init is the page right after authorization succeeded: the chart    *)
(* exists, loadHistoricalData() has sent its request, the listeners are    *)
(* installed and the tick subscription is on.                              *)
(***************************************************************************)
EXTENDS Integers, Sequences, FiniteSets, TLC

(***************************************************************************)
(* Bounds of the model.                                                    *)
(***************************************************************************)
\* Capacity of tickData and historicalData.  The page sets 1000
\* (part_000:114); the model keeps the same code with a small capacity.
MAX_TICKS == 3

\* Window of checkVolume.  The page uses 100 (part_000:569,572); scaled with
\* MAX_TICKS so that tickData can be shorter than, equal to and longer than it.
VOLUME_WINDOW == 2

\* Date.now() advances in steps of TimeUnit ms, at most MaxClockSteps times.
TimeUnit == 10000

MaxClockSteps == 9

\* At most MaxOrders api.buy calls are followed.
MaxOrders == 3

\* The value typed in the maxTrades field is drawn from 1..MaxMaxTrades.
MaxMaxTrades == 3

\* The loss-streak ceiling of the specification's TradeGate (no constant of
\* the page holds one).
MaxConsecutiveLosses == 2

\* Change events of #instrumentSelect in one run.
MaxSwitches == 2

\* Closes a candle of the probed series can take.
ProbeCloseLevels == 3

\* The window of checkVolume (100 in the page) where the function is
\* evaluated alone: wide enough for 3 up-ticks against 2 down-ticks.
ProbeVolumeWindow == 5

\* longest trade history handed to a strategy of options_script.js alone
MaxProbeTrades == 4

\* trades strategies.selfLearning looks back on (20 in options_script.js)
LEARNING_WINDOW == 3

\* calls of initializeConnection in one behaviour
MaxConnections == 7

\* the same while the page also trades
MaxPageConnections == 2

(***************************************************************************)
(* Constants of the page.                                                  *)
(***************************************************************************)
TRADE_COOLDOWN_MS == 30000

SIGNAL_INTERVAL_MS == 60000

CANDLE_SECONDS == 60

PRICE_ACTION_MIN_CANDLES == 3

\* value attribute of the #maxTrades field
DefaultMaxTrades == 5

\* const maxReconnectAttempts = 5
maxReconnectAttempts == 5

\* reconnectAttempts * 2000
RECONNECT_STEP_MS == 2000

\* Math.min(10000, ...)
RECONNECT_CAP_MS == 10000

\* Date.now() when the page starts: any value larger than SIGNAL_INTERVAL_MS
\* past the initial lastSignalTime = 0 behaves like a real clock reading.
StartNow == 100000

VARIABLES
    now,                \* Date.now()
    lastSignalTime,     \* part_000:127
    tickData,           \* part_000:123
    historicalData,     \* part_000:124
    tradeHistory,       \* part_000:126
    currentAccount,     \* part_000:119
    signal,             \* the signal object last handed to displaySignal
    signalDirection,    \* textContent of #signalDirection
    executeBtnDisabled, \* #executeBtn.disabled
    maxTrades,          \* value of the #maxTrades field
    orders,             \* every api.buy request sent, in order: the broker's view
    pendingBuys,        \* indices of orders whose response has not arrived
    historyFetches,     \* getTickHistory requests of initializeConnection in flight
    lastLog,            \* newest entry of #tradeLogs
    lastOp,             \* the handler that ran last and the branch it took
    currentInstrument,  \* part_000:120
    activeSubscriptions,\* part_000:125, each subscription with the symbol it streams
    pendingSubscribes,  \* api.subscribe requests in flight
    pendingSwitches,    \* change handlers suspended at await loadHistoricalData()
    switchCount,        \* change events dispatched so far
    historicalInstrument, \* the symbol of the response historicalData was last assigned from
    generateSignalAt,   \* Date.now() of the newest generateSignal call, 0 before any
    probe,              \* argument and result of the last library function evaluated alone
    strategyWeights,    \* options_script.js:25
    signalInstrument,   \* currentInstrument when the displayed signal was computed
    urlParams,          \* token and account_id of the page URL
    connection,         \* api.connection of the newest api object
    isConnected,        \* part_000:128
    authorization,      \* api.authorize on the newest connection
    reconnectAttempts,  \* part_000:129
    reconnectTimers,    \* delays of the setTimeout calls of onclose not yet run
    connectionCount,    \* calls of initializeConnection so far
    listeners,          \* calls of setupEventListeners so far
    closesSinceOpen     \* onclose events since the newest onopen

feedVars == <<currentInstrument, activeSubscriptions, pendingSubscribes,
              pendingSwitches, switchCount>>

\* the connection of the page, and the state of options_script.js that the
\* page of part_000 does not have
connVars == <<urlParams, connection, isConnected, authorization,
              reconnectAttempts, reconnectTimers, connectionCount, listeners,
              closesSinceOpen>>

restVars == <<strategyWeights, connVars>>

vars == <<now, lastSignalTime, tickData, historicalData, tradeHistory,
          currentAccount, signal, signalDirection, executeBtnDisabled,
          maxTrades, orders, pendingBuys, historyFetches, lastLog, lastOp,
          feedVars, historicalInstrument, generateSignalAt, probe, restVars,
                   signalInstrument>>

(***************************************************************************)
(* Helpers.                                                                *)
(***************************************************************************)
\* let currentInstrument = 'R_100'
DefaultInstrument == "R_100"

\* the options of #instrumentSelect
Instruments == {"R_100", "R_50", "1HZ100V"}

\* the object api.subscribe resolves to, with the symbol it was requested for
Subscription(id, symbol) == [id |-> id, symbol |-> symbol]

NoProbe == [fn |-> "none", arg |-> <<>>, out |-> <<>>]

\* The number NaN.  Quotes, epochs and counts are never negative.
NaN == -1

\* A field of a message that holds no number (absent, or text that is not a
\* numeral).
NonNumeric == -2

\* parseFloat(x); x / 60 converts the same way
parseFloat(x) == IF x = NonNumeric THEN NaN ELSE x

\* a < b and a > b, false when either side is NaN
Lt(a, b) == a # NaN /\ b # NaN /\ a < b

Gt(a, b) == a # NaN /\ b # NaN /\ a > b

\* a === b on numbers: NaN equals nothing
StrictEq(a, b) == a # NaN /\ b # NaN /\ a = b

\* Math.max(a, b)
Max(a, b) == IF a = NaN \/ b = NaN THEN NaN ELSE IF a >= b THEN a ELSE b

\* Math.min(a, b)
Min(a, b) == IF a = NaN \/ b = NaN THEN NaN ELSE IF a <= b THEN a ELSE b

Last(s) == s[Len(s)]

\* s.slice(-n)
LastN(s, n) == IF Len(s) <= n THEN s ELSE SubSeq(s, Len(s) - n + 1, Len(s))

\* Variant: the overflow drops the element just pushed (pop for shift).
PushShift_Pop(arr, x) ==
    LET pushed == Append(arr, x)
    IN  IF Len(pushed) > MAX_TICKS THEN SubSeq(pushed, 1, MAX_TICKS) ELSE pushed

\* arr.push(x); if (arr.length > MAX_TICKS) arr.shift();
PushShift(arr, x) ==
    LET pushed == Append(arr, x)
    IN  IF Len(pushed) > MAX_TICKS THEN Tail(pushed) ELSE pushed

(***************************************************************************)
(* Numbers of the indicator arithmetic: exact quotients num / den with     *)
(* den > 0, and NaN as den = 0.  (The page computes in IEEE doubles; the   *)
(* model keeps the quotients exact.)                                       *)
(***************************************************************************)
RECURSIVE Gcd(_, _)
Gcd(a, b) == IF b = 0 THEN a ELSE Gcd(b, a % b)

Abs(a) == IF a < 0 THEN 0 - a ELSE a

Rat(n, d) ==
    LET g == Gcd(Abs(n), d)
    IN  [num |-> n \div g, den |-> d \div g]

RNaN == [num |-> 0, den |-> 0]

\* a number held by the page as a quotient
ToRat(x) == IF x = NaN THEN RNaN ELSE [num |-> x, den |-> 1]

RAdd(a, b) ==
    IF a.den = 0 \/ b.den = 0 THEN RNaN
    ELSE Rat(a.num * b.den + b.num * a.den, a.den * b.den)

RSub(a, b) ==
    IF a.den = 0 \/ b.den = 0 THEN RNaN
    ELSE Rat(a.num * b.den - b.num * a.den, a.den * b.den)

RMul(a, b) ==
    IF a.den = 0 \/ b.den = 0 THEN RNaN
    ELSE Rat(a.num * b.num, a.den * b.den)

\* comparisons are false when either side is NaN
RGt(a, b) == a.den # 0 /\ b.den # 0 /\ a.num * b.den > b.num * a.den

RLt(a, b) == a.den # 0 /\ b.den # 0 /\ a.num * b.den < b.num * a.den

RGe(a, b) == a.den # 0 /\ b.den # 0 /\ a.num * b.den >= b.num * a.den

RLe(a, b) == a.den # 0 /\ b.den # 0 /\ a.num * b.den <= b.num * a.den

\* arr[i] used as a number: an index outside the array reads undefined,
\* which arithmetic and comparisons turn into NaN (i counts from 1)
At(arr, i) == IF i \in 1..Len(arr) THEN arr[i] ELSE RNaN

\* data.slice(0, period).reduce((sum, val) => sum + val, 0)
RECURSIVE RSum(_)
RSum(arr) == IF arr = <<>> THEN ToRat(0) ELSE RAdd(RSum(Tail(arr)), Head(arr))

\* for (let i = period; i < data.length; i++)
\*     ema.push((data[i] - ema[i - period]) * multiplier + ema[i - period])
RECURSIVE emaLoop(_, _, _, _)
emaLoop(data, period, i, ema) ==
    IF i > Len(data) THEN ema
    ELSE emaLoop(data, period, i + 1,
                 Append(ema, RAdd(RMul(RSub(data[i], ema[i - period]),
                                       Rat(2, period + 1)),
                                  ema[i - period])))

calculateEMA(period, data) ==
    IF Len(data) < period THEN [i \in 1..Len(data) |-> ToRat(0)]
    ELSE emaLoop(data, period, period + 1,
                 <<RMul(RSum(SubSeq(data, 1, period)), Rat(1, period))>>)

\* a / b for b # 0 (the page divides by period, by a nonzero avgLoss and by
\* 1 + rs >= 1 only)
RDiv(a, b) ==
    IF a.den = 0 \/ b.den = 0 \/ b.num = 0 THEN RNaN
    ELSE IF b.num > 0 THEN Rat(a.num * b.den, a.den * b.num)
    ELSE Rat(0 - a.num * b.den, a.den * (0 - b.num))

RNeg(a) == RSub(ToRat(0), a)

\* for (let i = 0; i < period; i++)
\*     if (changes[i] > 0) avgGain += changes[i]; else avgLoss -= changes[i];
RECURSIVE initialGain(_, _)
initialGain(changes, n) ==
    IF n = 0 THEN ToRat(0)
    ELSE IF RGt(changes[n], ToRat(0))
         THEN RAdd(initialGain(changes, n - 1), changes[n])
         ELSE initialGain(changes, n - 1)

RECURSIVE initialLoss(_, _)
initialLoss(changes, n) ==
    IF n = 0 THEN ToRat(0)
    ELSE IF RGt(changes[n], ToRat(0))
         THEN initialLoss(changes, n - 1)
         ELSE RSub(initialLoss(changes, n - 1), changes[n])

\* the loop over the changes after the first period ones (i counts from 1)
RECURSIVE rsiLoop(_, _, _, _, _, _)
rsiLoop(changes, period, i, avgGain, avgLoss, rsi) ==
    IF i > Len(changes) THEN rsi
    ELSE LET change == changes[i]
             gain == IF RGt(change, ToRat(0)) THEN change ELSE ToRat(0)
             loss == IF RGt(change, ToRat(0)) THEN ToRat(0) ELSE RNeg(change)
             gainNow == RDiv(RAdd(RMul(avgGain, ToRat(period - 1)), gain),
                             ToRat(period))
             lossNow == RDiv(RAdd(RMul(avgLoss, ToRat(period - 1)), loss),
                             ToRat(period))
             rs == IF lossNow = ToRat(0) THEN ToRat(100)
                   ELSE RDiv(gainNow, lossNow)
         IN  rsiLoop(changes, period, i + 1, gainNow, lossNow,
                     Append(rsi, RSub(ToRat(100),
                                      RDiv(ToRat(100), RAdd(ToRat(1), rs)))))

calculateRSI(period, closes) ==
    IF Len(closes) < period + 1 THEN [i \in 1..Len(closes) |-> ToRat(50)]
    ELSE LET changes == [i \in 1..(Len(closes) - 1) |->
                            RSub(closes[i + 1], closes[i])]
         IN  rsiLoop(changes, period, period + 1,
                     RDiv(initialGain(changes, period), ToRat(period)),
                     RDiv(initialLoss(changes, period), ToRat(period)),
                     [i \in 1..period |-> ToRat(50)])

\* a variant that tests only the current averages
checkEMACrossOver_NoPrev(closes, fast, slow) ==
    IF Len(closes) < slow THEN [confidence |-> 0, direction |-> "neutral"]
    ELSE LET ema20 == calculateEMA(fast, closes)
             ema50 == calculateEMA(slow, closes)
             currentEma20 == At(ema20, Len(ema20))
             currentEma50 == At(ema50, Len(ema50))
         IN  IF RGt(currentEma20, currentEma50)
             THEN [confidence |-> 75, direction |-> "bullish"]
             ELSE IF RLt(currentEma20, currentEma50)
             THEN [confidence |-> 75, direction |-> "bearish"]
             ELSE [confidence |-> 0, direction |-> "neutral"]

\* checkEMACross with its periods 20 and 50 as parameters, over the closes
\* of historicalData
checkEMACrossOver(closes, fast, slow) ==
    IF Len(closes) < slow THEN [confidence |-> 0, direction |-> "neutral"]
    ELSE LET ema20 == calculateEMA(fast, closes)
             ema50 == calculateEMA(slow, closes)
             currentEma20 == At(ema20, Len(ema20))
             currentEma50 == At(ema50, Len(ema50))
             prevEma20 == At(ema20, Len(ema20) - 1)
             prevEma50 == At(ema50, Len(ema50) - 1)
         IN  IF RGt(currentEma20, currentEma50) /\ RLe(prevEma20, prevEma50)
             THEN [confidence |-> 75, direction |-> "bullish"]
             ELSE IF RLt(currentEma20, currentEma50) /\ RGe(prevEma20, prevEma50)
             THEN [confidence |-> 75, direction |-> "bearish"]
             ELSE [confidence |-> 0, direction |-> "neutral"]

\* checkMACD with its periods 12, 26, 9 as parameters, over the closes of
\* historicalData
checkMACDOver(closes, fast, slow, signalPeriod) ==
    IF Len(closes) < slow THEN [confidence |-> 0, direction |-> "neutral"]
    ELSE LET ema12 == calculateEMA(fast, closes)
             ema26 == calculateEMA(slow, closes)
             macdLine == [i \in 1..Len(ema12) |-> RSub(ema12[i], At(ema26, i))]
             signalLine == calculateEMA(signalPeriod, macdLine)
             currentMacd == At(macdLine, Len(macdLine))
             currentSignal == At(signalLine, Len(signalLine))
             prevMacd == At(macdLine, Len(macdLine) - 1)
             prevSignal == At(signalLine, Len(signalLine) - 1)
         IN  IF RGt(currentMacd, currentSignal) /\ RLe(prevMacd, prevSignal)
             THEN [confidence |-> 70, direction |-> "bullish"]
             ELSE IF RLt(currentMacd, currentSignal) /\ RGe(prevMacd, prevSignal)
             THEN [confidence |-> 70, direction |-> "bearish"]
             ELSE [confidence |-> 0, direction |-> "neutral"]

(***************************************************************************)
(* Strategy and indicator results.                                         *)
(***************************************************************************)
Result(c, d) == [confidence |-> c, direction |-> d]

Neutral == Result(0, "neutral")

\* Raised by a check: generateSignal's try block is left.
TypeError == Result(-1, "TypeError")

\* The results the return statements of the four checks over the EMA, RSI,
\* MACD and Bollinger series can produce.  Their floating-point series are
\* not recomputed here: the aggregator is examined for every result a check
\* can hand it.
checkEMACrossOutcomes == {Neutral, Result(75, "bullish"), Result(75, "bearish")}

checkRSIOutcomes == {Neutral, Result(70, "bearish"), Result(70, "bullish")}

\* checkMACD compares a NaN (see checkMACDOver: the last entries of macdLine
\* read ema26 beyond its end), so neither of its two conditions ever holds.
checkMACDOutcomes == {Neutral}

checkBollingerOutcomes == {Neutral, Result(70, "bearish"), Result(70, "bullish")}

Oracles ==
    [emaCross : checkEMACrossOutcomes, rsiSignal : checkRSIOutcomes,
     macd : checkMACDOutcomes, bollinger : checkBollingerOutcomes]

AllNeutral ==
    [emaCross |-> Neutral, rsiSignal |-> Neutral, macd |-> Neutral,
     bollinger |-> Neutral]

checkPriceAction(hd) ==
    IF Len(hd) < PRICE_ACTION_MIN_CANDLES THEN Neutral
    ELSE LET lastCandle == hd[Len(hd)]
             prevCandle == hd[Len(hd) - 1]
         IN  IF /\ Lt(prevCandle.close, prevCandle.open)
                /\ Lt(lastCandle.open, prevCandle.close)
                /\ Gt(lastCandle.close, prevCandle.open)
             THEN Result(65, "bullish")
             ELSE IF /\ Gt(prevCandle.close, prevCandle.open)
                     /\ Gt(lastCandle.open, prevCandle.close)
                     /\ Lt(lastCandle.close, prevCandle.open)
                  THEN Result(65, "bearish")
                  ELSE Neutral

\* tickData[tickData.length - 101] is the element before the window; when
\* tickData holds exactly the window it is tickData[-1], undefined, and
\* reading its quote raises a TypeError.
\* Variant: the threshold compared with >= while one side leads.
checkVolumeOver_Inclusive(td, window) ==
    IF Len(td) < window THEN Neutral
    ELSE IF Len(td) = window THEN TypeError
    ELSE LET recentTicks == LastN(td, window)
             reference == td[Len(td) - window].quote
             upTicks == Cardinality({i \in 1..Len(recentTicks) :
                                        Gt(recentTicks[i].quote, reference)})
             downTicks == Cardinality({i \in 1..Len(recentTicks) :
                                        Lt(recentTicks[i].quote, reference)})
         IN  IF 2 * upTicks >= 3 * downTicks /\ upTicks > downTicks
             THEN Result(60, "bullish")
             ELSE IF 2 * downTicks >= 3 * upTicks /\ downTicks > upTicks
             THEN Result(60, "bearish")
             ELSE Neutral

\* checkVolume with its window of 100 ticks as a parameter
checkVolumeOver(td, window) ==
    IF Len(td) < window THEN Neutral
    ELSE IF Len(td) = window THEN TypeError
    ELSE LET recentTicks == LastN(td, window)
             reference == td[Len(td) - window].quote
             upTicks == Cardinality({i \in 1..Len(recentTicks) :
                                        Gt(recentTicks[i].quote, reference)})
             downTicks == Cardinality({i \in 1..Len(recentTicks) :
                                        Lt(recentTicks[i].quote, reference)})
         IN  \* upTicks > downTicks * 1.5, in integers
             IF 2 * upTicks > 3 * downTicks THEN Result(60, "bullish")
             ELSE IF 2 * downTicks > 3 * upTicks THEN Result(60, "bearish")
             ELSE Neutral

checkVolume(td) == checkVolumeOver(td, VOLUME_WINDOW)

(***************************************************************************)
(* Strategies and indicators of options_script.js.  The arrays returned by *)
(* talib are inputs.                                                       *)
(***************************************************************************)
\* a trade as executeTrade of options_script.js records it
Trade(direction, profit) ==
    [direction |-> direction, strategy |-> "combined", profit |-> profit]

martingale(history) ==
    IF Len(history) < 3 THEN Neutral
    ELSE LET lastTrades == LastN(history, 3)
             losingStreak == Cardinality({i \in 1..3 : ~lastTrades[i].profit})
             lastSignal == Last(lastTrades)
         IN  IF losingStreak >= 2
             THEN Result(55, IF lastSignal.direction = "BUY" THEN "SELL"
                             ELSE "BUY")
             ELSE Neutral

\* atrValues is talib.ATR(highs, lows, closes, 14), realtime is data.realtime
atr(atrValues, realtime) ==
    LET currentATR == ToRat(Last(atrValues))
        avgATR == RDiv(RSum([i \in 1..Len(atrValues) |-> ToRat(atrValues[i])]),
                       ToRat(Len(atrValues)))
    IN  IF RGt(currentATR, RMul(avgATR, Rat(3, 2)))
        THEN Result(70, IF Last(realtime).quote
                              > realtime[Len(realtime) - 1].quote
                        THEN "bullish" ELSE "bearish")
        ELSE IF RLt(currentATR, RMul(avgATR, Rat(1, 2)))
        THEN Result(60, "neutral")
        ELSE Neutral

\* currentADX, plusDI and minusDI are the last values of talib.ADX,
\* talib.PLUS_DI and talib.MINUS_DI
adx(currentADX, plusDI, minusDI) ==
    IF currentADX > 25
    THEN IF plusDI > minusDI THEN Result(70, "bullish")
         ELSE Result(70, "bearish")
    ELSE IF currentADX < 20 THEN Result(60, "neutral")
    ELSE Neutral

\* const strategyWeights = {...}
DefaultWeights ==
    [priceAction |-> Rat(12, 10), breakout |-> Rat(11, 10),
     trendFollowing |-> Rat(10, 10), meanReversion |-> Rat(9, 10),
     momentum |-> Rat(10, 10), supportResistance |-> Rat(11, 10),
     supplyDemand |-> Rat(10, 10), reversal |-> Rat(13, 10),
     scalping |-> Rat(8, 10), martingale |-> Rat(7, 10),
     neuralNetwork |-> Rat(14, 10), bigMoneyFlow |-> Rat(12, 10),
     deltaGamma |-> Rat(11, 10), patternRecognition |-> Rat(13, 10),
     fibonacci |-> Rat(10, 10), vwap |-> Rat(11, 10),
     multiTimeframe |-> Rat(12, 10), orderBook |-> Rat(10, 10),
     historicalSuccess |-> Rat(13, 10), selfLearning |-> Rat(15, 10)]

RMax(a, b) == IF RGe(a, b) THEN a ELSE b

RMin(a, b) == IF RLe(a, b) THEN a ELSE b

\* a variant without the lower limit
Clamp_NoFloor(winRate) == RMin(Rat(3, 2), RMul(winRate, Rat(3, 2)))

\* Math.max(0.5, Math.min(1.5, winRate * 1.5))
Clamp(winRate) == RMax(Rat(1, 2), RMin(Rat(3, 2), RMul(winRate, Rat(3, 2))))

\* stats.wins / stats.total of one strategy over recentTrades
WinRate(recentTrades, strategy) ==
    LET of == {i \in 1..Len(recentTrades) : recentTrades[i].strategy = strategy}
        wins == {i \in of : recentTrades[i].profit}
    IN  RDiv(ToRat(Cardinality(wins)), ToRat(Cardinality(of)))

\* the weight table after the loop over Object.entries(strategyPerformance)
AdjustedWeights(weights, recentTrades) ==
    LET seen == {recentTrades[i].strategy : i \in 1..Len(recentTrades)}
    IN  [k \in DOMAIN weights \cup seen |->
            IF k \in seen THEN Clamp(WinRate(recentTrades, k)) ELSE weights[k]]

(***************************************************************************)
(* generateSignal.  A confidence is the exact quotient num / den.          *)
(***************************************************************************)
StrategyNames == {"emaCross", "rsiSignal", "priceAction"}

IndicatorNames == {"macd", "bollinger", "volume"}

Confidence(n, d) == [num |-> n, den |-> d]

\* Math.min(100, (count / total) * 100)
ConfidenceOf(count, total) ==
    IF 100 * count > 100 * total THEN Confidence(100, 1)
    ELSE Confidence(100 * count, total)

\* Only results with confidence > 0 are stored in the signal.
Confirmations(results) ==
    [n \in {m \in DOMAIN results : results[m].confidence > 0} |-> results[n]]

CountDirection(confirmations, d) ==
    Cardinality({n \in DOMAIN confirmations : confirmations[n].direction = d})

\* Variant: the indicator confirmations are left out of the count.
CountConfirmations_StrategiesOnly(sc, ic, d) == CountDirection(sc, d)

\* Object.values(strategyConfirmations).concat(Object.values(indicatorConfirmations))
\*     .filter(c => c.direction === d).length
CountConfirmations(sc, ic, d) == CountDirection(sc, d) + CountDirection(ic, d)

\* Variant: a tie goes to BUY.
FinalDirection_TieBuys(bullish, bearish) ==
    IF bullish >= bearish THEN "BUY" ELSE "SELL"

\* if (bullishConfirmations > bearishConfirmations) BUY else SELL
FinalDirection(bullish, bearish) == IF bullish > bearish THEN "BUY" ELSE "SELL"

NoSignal ==
    [direction |-> "--", confidence |-> Confidence(0, 1),
     strategyConfirmations |-> Confirmations([n \in {} |-> Neutral]),
     indicatorConfirmations |-> Confirmations([n \in {} |-> Neutral])]

\* The object generateSignal hands to displaySignal, or TypeError when a check
\* raised before displaySignal was reached.
generateSignal(td, hd, oracle) ==
    LET strategies == [n \in StrategyNames |->
                          CASE n = "emaCross" -> oracle.emaCross
                            [] n = "rsiSignal" -> oracle.rsiSignal
                            [] n = "priceAction" -> checkPriceAction(hd)]
        volumeSignal == checkVolume(td)
        indicators == [n \in IndicatorNames |->
                          CASE n = "macd" -> oracle.macd
                            [] n = "bollinger" -> oracle.bollinger
                            [] n = "volume" -> volumeSignal]
        sc == Confirmations(strategies)
        ic == Confirmations(indicators)
        bullishConfirmations == CountConfirmations(sc, ic, "bullish")
        bearishConfirmations == CountConfirmations(sc, ic, "bearish")
        totalConfirmations == bullishConfirmations + bearishConfirmations
    IN  IF volumeSignal = TypeError THEN TypeError
        ELSE [direction |->
                 IF totalConfirmations > 0
                 THEN FinalDirection(bullishConfirmations, bearishConfirmations)
                 ELSE "--",
              confidence |->
                 IF totalConfirmations > 0
                 THEN IF bullishConfirmations > bearishConfirmations
                      THEN ConfidenceOf(bullishConfirmations, totalConfirmations)
                      ELSE ConfidenceOf(bearishConfirmations, totalConfirmations)
                 ELSE Confidence(0, 1),
              strategyConfirmations |-> sc,
              indicatorConfirmations |-> ic]

\* lastOp: the handler, the branch it took, and for processTick the tick it
\* was given and what its buffer step and its candle step did.
NoTick == [quote |-> 0, epoch |-> 0]

Op(op, branch) ==
    [op |-> op, branch |-> branch, buffer |-> "none", candle |-> "none",
     tick |-> NoTick]

(***************************************************************************)
(* processTick: the tick buffer, the candle series, the signal throttle.   *)
(***************************************************************************)
\* Math.floor(newTick.epoch / 60) * 60
BucketOf(epoch) ==
    IF parseFloat(epoch) = NaN THEN NaN
    ELSE (epoch \div CANDLE_SECONDS) * CANDLE_SECONDS

NewCandle(time, quote) ==
    [time |-> time, open |-> quote, high |-> quote, low |-> quote,
     close |-> quote]

\* Variant: the low of the candle is not updated.
UpdateCandle_NoLow(candle, quote) ==
    [candle EXCEPT !.high = Max(candle.high, quote), !.close = quote]

\* Variant: the update also moves the open of the candle.
UpdateCandle_ResetOpen(candle, quote) ==
    [candle EXCEPT !.open = quote,
                   !.high = Max(candle.high, quote),
                   !.low = Min(candle.low, quote),
                   !.close = quote]

UpdateCandle(candle, quote) ==
    [candle EXCEPT !.high = Max(candle.high, quote),
                   !.low = Min(candle.low, quote),
                   !.close = quote]

\* historicalData after the candle step of processTick
MergeTick(hd, newTick) ==
    LET currentTime == BucketOf(newTick.epoch)
    IN  IF Len(hd) > 0 /\ StrictEq(currentTime, hd[Len(hd)].time)
        THEN [hd EXCEPT ![Len(hd)] = UpdateCandle(hd[Len(hd)], newTick.quote)]
        ELSE PushShift(hd, NewCandle(currentTime, newTick.quote))

\* whether the push on tickData is followed by a shift
BufferStep(td) == IF Len(td) = MAX_TICKS THEN "pushShift" ELSE "push"

\* which branch of the candle step a tick takes
CandleStep(hd, newTick) ==
    IF Len(hd) > 0 /\ StrictEq(BucketOf(newTick.epoch), hd[Len(hd)].time)
    THEN "update"
    ELSE IF Len(hd) = MAX_TICKS THEN "appendShift"
    ELSE "append"

\* now - lastSignalTime > 60000
SignalDue(t, last) == t - last > SIGNAL_INTERVAL_MS

\* Whether candleSeries.update(candle) raises.  The chart library is not part
\* of the sources: it takes a candle that continues the series, and may or
\* may not raise on one that holds NaN or is older than the one before it.
updateThrows(hd) ==
    LET candle == hd[Len(hd)]
        odd == \/ candle.time = NaN
               \/ candle.close = NaN
               \/ Len(hd) > 1 /\ candle.time < hd[Len(hd) - 1].time
    IN  IF odd THEN {TRUE, FALSE} ELSE {FALSE}

\* processTick of part_000 (guarded: its body and generateSignal's are in
\* try blocks) and of part_001 (not guarded: an error leaves both functions).
processTickOf(guarded, tick, oracle) ==
    /\ LET newTick == [quote |-> parseFloat(tick.quote), epoch |-> tick.epoch]
           ran(branch) == [op |-> "processTick", branch |-> branch,
                           buffer |-> BufferStep(tickData),
                           candle |-> CandleStep(historicalData, newTick),
                           tick |-> newTick]
       IN  /\ tickData' = PushShift(tickData, newTick)
           /\ historicalData' = MergeTick(historicalData, newTick)
           /\ \E threw \in updateThrows(historicalData') :
                IF threw
                THEN \* nothing after the chart update runs
                     /\ UNCHANGED <<lastSignalTime, generateSignalAt, signal,
                                    signalDirection, executeBtnDisabled, lastLog,
                                    signalInstrument>>
                     /\ lastOp' = ran("chartThrew")
                ELSE IF SignalDue(now, lastSignalTime)
                THEN /\ generateSignalAt' = now
                     /\ \E sig \in {generateSignal(tickData', historicalData', oracle)} :
                          IF sig = TypeError
                          THEN \* guarded: caught inside generateSignal and
                               \* logged to the console; otherwise the
                               \* assignment to lastSignalTime is not reached
                               /\ lastSignalTime' =
                                      IF guarded THEN now ELSE lastSignalTime
                               /\ UNCHANGED <<signal, signalDirection,
                                              executeBtnDisabled, lastLog,
                                    signalInstrument>>
                               /\ lastOp' = ran("signalThrew")
                          ELSE /\ lastSignalTime' = now
                               /\ signal' = sig
                               /\ signalDirection' = sig.direction
                               /\ executeBtnDisabled' = (sig.direction = "--")
                               /\ lastLog' = "signal"
                               /\ signalInstrument' = currentInstrument
                               /\ lastOp' = ran("signal")
                ELSE /\ UNCHANGED <<lastSignalTime, generateSignalAt, signal,
                                    signalDirection, executeBtnDisabled, lastLog,
                                    signalInstrument>>
                     /\ lastOp' = ran("throttled")
    /\ UNCHANGED <<now, tradeHistory, currentAccount, maxTrades, orders,
                   pendingBuys, historyFetches, feedVars, historicalInstrument,
                   probe,
                   restVars>>

processTick(tick, oracle) == processTickOf(TRUE, tick, oracle)

\* processTick of part_001
processTickUnguarded(tick, oracle) == processTickOf(FALSE, tick, oracle)

(***************************************************************************)
(* loadHistoricalData: the continuation after await api.getTickHistory.    *)
(***************************************************************************)
loadHistoricalDataResolve(candles) ==
    /\ historyFetches > 0
    /\ historyFetches' = historyFetches - 1
    /\ historicalData' = candles
    /\ historicalInstrument' = DefaultInstrument
    /\ lastOp' = Op("loadHistoricalData", "loaded")
    /\ UNCHANGED <<now, lastSignalTime, tickData, tradeHistory, currentAccount,
                   signal, signalDirection, executeBtnDisabled, maxTrades,
                   orders, pendingBuys, lastLog, feedVars, generateSignalAt,
                   probe,
                   restVars,
                   signalInstrument>>

\* the request rejects, or the response holds no candles
loadHistoricalDataFail ==
    /\ historyFetches > 0
    /\ historyFetches' = historyFetches - 1
    /\ lastLog' = "historyError"
    /\ lastOp' = Op("loadHistoricalData", "failed")
    /\ UNCHANGED <<now, lastSignalTime, tickData, historicalData, tradeHistory,
                   currentAccount, signal, signalDirection, executeBtnDisabled,
                   maxTrades, orders, pendingBuys, feedVars,
                   historicalInstrument, generateSignalAt, probe,
                   restVars,
                   signalInstrument>>

(***************************************************************************)
(* The instrument selector and the tick subscription.                      *)
(***************************************************************************)
\* a getTickHistory request of a change handler, with the symbol it asks for
Fetch(id, symbol) == [id |-> id, symbol |-> symbol]

\* change on #instrumentSelect, up to await loadHistoricalData(): the event
\* fires when another option is picked.
instrumentChange(value) ==
    /\ switchCount < MaxSwitches
    /\ value # currentInstrument
    /\ currentInstrument' = value
    /\ switchCount' = switchCount + 1
    /\ pendingSwitches' = pendingSwitches \cup {Fetch(switchCount + 1, value)}
    /\ lastOp' = Op("instrumentChange", "fetching")
    /\ UNCHANGED <<now, lastSignalTime, tickData, historicalData, tradeHistory,
                   currentAccount, signal, signalDirection, executeBtnDisabled,
                   maxTrades, orders, pendingBuys, historyFetches, lastLog,
                   activeSubscriptions, pendingSubscribes,
                   historicalInstrument, generateSignalAt, probe,
                   restVars,
                   signalInstrument>>

\* The change handler after its await loadHistoricalData():
\* if (activeSubscriptions.size > 0) { unsubscribeFromTicks(); subscribeToTicks() }
\* up to the await api.subscribe inside subscribeToTicks.
resubscribe(h) ==
    IF activeSubscriptions # {}
    THEN /\ activeSubscriptions' = {}
         /\ pendingSubscribes' =
                pendingSubscribes \cup {Subscription(h.id, currentInstrument)}
    ELSE UNCHANGED <<activeSubscriptions, pendingSubscribes>>

\* getTickHistory of a change handler resolves with candles
switchFetchResolve(h, candles) ==
    /\ h \in pendingSwitches
    /\ pendingSwitches' = pendingSwitches \ {h}
    /\ historicalData' = candles
    /\ historicalInstrument' = h.symbol
    /\ resubscribe(h)
    /\ lastOp' = Op("instrumentChange", "loaded")
    /\ UNCHANGED <<now, lastSignalTime, tickData, tradeHistory, currentAccount,
                   signal, signalDirection, executeBtnDisabled, maxTrades,
                   orders, pendingBuys, historyFetches, lastLog,
                   currentInstrument, switchCount, generateSignalAt, probe,
                   restVars,
                   signalInstrument>>

\* getTickHistory of a change handler rejects or holds no candles: caught
\* inside loadHistoricalData, the handler goes on
switchFetchFail(h) ==
    /\ h \in pendingSwitches
    /\ pendingSwitches' = pendingSwitches \ {h}
    /\ lastLog' = "historyError"
    /\ resubscribe(h)
    /\ lastOp' = Op("instrumentChange", "failed")
    /\ UNCHANGED <<now, lastSignalTime, tickData, historicalData, tradeHistory,
                   currentAccount, signal, signalDirection, executeBtnDisabled,
                   maxTrades, orders, pendingBuys, historyFetches,
                   currentInstrument, switchCount, historicalInstrument,
                   generateSignalAt, probe,
                   restVars,
                   signalInstrument>>

\* subscribeToTicks after its await api.subscribe
subscribeResolve(sub) ==
    /\ sub \in pendingSubscribes
    /\ pendingSubscribes' = pendingSubscribes \ {sub}
    /\ activeSubscriptions' = activeSubscriptions \cup {sub}
    /\ lastOp' = Op("subscribeToTicks", "subscribed")
    /\ UNCHANGED <<now, lastSignalTime, tickData, historicalData, tradeHistory,
                   currentAccount, signal, signalDirection, executeBtnDisabled,
                   maxTrades, orders, pendingBuys, historyFetches, lastLog,
                   currentInstrument, pendingSwitches, switchCount,
                   historicalInstrument, generateSignalAt, probe,
                   restVars,
                   signalInstrument>>

\* api.subscribe rejects
subscribeFail(sub) ==
    /\ sub \in pendingSubscribes
    /\ pendingSubscribes' = pendingSubscribes \ {sub}
    /\ lastLog' = "subscribeError"
    /\ lastOp' = Op("subscribeToTicks", "failed")
    /\ UNCHANGED <<now, lastSignalTime, tickData, historicalData, tradeHistory,
                   currentAccount, signal, signalDirection, executeBtnDisabled,
                   maxTrades, orders, pendingBuys, historyFetches,
                   currentInstrument, activeSubscriptions, pendingSwitches,
                   switchCount, historicalInstrument, generateSignalAt, probe,
                   restVars,
                   signalInstrument>>

\* subscription.onUpdate(data => processTick(data.tick)) of a live stream
onUpdate(sub, tick, oracle) ==
    /\ sub \in activeSubscriptions
    /\ processTick(tick, oracle)

(***************************************************************************)
(* The connection: DOMContentLoaded, initializeConnection and the          *)
(* handlers it installs on api.connection.                                 *)
(***************************************************************************)
\* the page variables no connection handler writes
quietVars == <<now, lastSignalTime, tickData, historicalData, tradeHistory,
               signal, signalDirection, executeBtnDisabled, maxTrades, orders,
               pendingBuys, currentInstrument, activeSubscriptions,
               pendingSwitches, switchCount, historicalInstrument,
               generateSignalAt, probe, strategyWeights, signalInstrument>>

\* initializeConnection(token, accountId): a new api object, whose
\* connection has not opened and on which nothing is authorized
initializeConnection ==
    /\ connection' = "connecting"
    /\ authorization' = "none"
    /\ connectionCount' = connectionCount + 1

\* the DOMContentLoaded handler
DOMContentLoaded ==
    /\ connection = "unloaded"
    /\ IF urlParams.token = "" \/ urlParams.accountId = ""
       THEN /\ connection' = "none"
            /\ lastLog' = "paramsError"
            /\ lastOp' = Op("DOMContentLoaded", "missing")
            /\ UNCHANGED <<authorization, connectionCount>>
       ELSE /\ initializeConnection
            /\ lastOp' = Op("DOMContentLoaded", "connecting")
            /\ UNCHANGED lastLog
    /\ UNCHANGED <<quietVars, currentAccount, historyFetches,
                   pendingSubscribes, urlParams, isConnected,
                   reconnectAttempts, reconnectTimers, listeners,
                   closesSinceOpen>>

\* api.connection.onopen, up to the call of api.authorize
onopen ==
    /\ connection = "connecting"
    /\ connection' = "open"
    /\ isConnected' = TRUE
    /\ reconnectAttempts' = 0
    /\ authorization' = "pending"
    /\ closesSinceOpen' = 0
    /\ lastOp' = Op("onopen", "authorizing")
    /\ UNCHANGED <<quietVars, currentAccount, historyFetches, lastLog,
                   pendingSubscribes, urlParams, reconnectTimers,
                   connectionCount, listeners>>

\* what api.authorize can answer: no authorize payload, a loginid that is
\* or is not accountId, or a rejection
AuthResponses == {"noAuthorize", "match", "mismatch", "rejected"}

\* the id of the subscription subscribeToTicks asks for on the newest
\* connection (0 on the first)
StreamId == (connectionCount - 1) * 100

\* the then / catch callbacks of api.authorize(token)
authorizeSettles(response) ==
    /\ connection = "open"
    /\ authorization = "pending"
    /\ IF response = "match"
       THEN /\ authorization' = "ok"
            /\ currentAccount' = "account"
            /\ historyFetches' = historyFetches + 1
            /\ listeners' = listeners + 1
            /\ pendingSubscribes' =
                   pendingSubscribes
                       \cup {Subscription(StreamId, currentInstrument)}
            /\ lastOp' = Op("authorize", "authorized")
            /\ UNCHANGED lastLog
       ELSE /\ authorization' = "failed"
            /\ lastLog' = "authError"
            /\ lastOp' = Op("authorize", "failed")
            /\ UNCHANGED <<currentAccount, historyFetches, listeners,
                           pendingSubscribes>>
    /\ UNCHANGED <<quietVars, urlParams, connection, isConnected,
                   reconnectAttempts, reconnectTimers, connectionCount,
                   closesSinceOpen>>

\* Math.min(10000, reconnectAttempts * 2000)
ReconnectDelay(attempts) ==
    IF attempts * RECONNECT_STEP_MS < RECONNECT_CAP_MS
    THEN attempts * RECONNECT_STEP_MS ELSE RECONNECT_CAP_MS

\* a variant that tests the counter with <=
MayReconnect_Inclusive(attempts) == attempts <= maxReconnectAttempts

\* reconnectAttempts < maxReconnectAttempts
MayReconnect(attempts) == attempts < maxReconnectAttempts

\* api.connection.onclose: the socket closes, or never opened
onclose ==
    /\ connection \in {"connecting", "open"}
    /\ connection' = "closed"
    /\ isConnected' = FALSE
    /\ closesSinceOpen' = closesSinceOpen + 1
    /\ IF MayReconnect(reconnectAttempts)
       THEN /\ reconnectAttempts' = reconnectAttempts + 1
            /\ reconnectTimers' =
                   Append(reconnectTimers, ReconnectDelay(reconnectAttempts'))
            /\ lastLog' = "closedError"
            /\ lastOp' = Op("onclose", "reconnecting")
       ELSE /\ lastLog' = "maxReconnectError"
            /\ lastOp' = Op("onclose", "givenUp")
            /\ UNCHANGED <<reconnectAttempts, reconnectTimers>>
    /\ UNCHANGED <<quietVars, currentAccount, historyFetches,
                   pendingSubscribes, urlParams, authorization,
                   connectionCount, listeners>>

\* api.connection.onerror
onerror ==
    /\ connection \in {"connecting", "open"}
    /\ lastLog' = "socketError"
    /\ lastOp' = Op("onerror", "shown")
    /\ UNCHANGED <<quietVars, currentAccount, historyFetches,
                   pendingSubscribes, connVars>>

\* the callback of setTimeout: () => initializeConnection(token, accountId),
\* while fewer than limit connections have been made
reconnectTimerFiresWithin(limit) ==
    /\ reconnectTimers # <<>>
    /\ connectionCount < limit
    /\ reconnectTimers' = Tail(reconnectTimers)
    /\ initializeConnection
    /\ lastOp' = Op("reconnectTimer", "connecting")
    /\ UNCHANGED <<quietVars, currentAccount, historyFetches, lastLog,
                   pendingSubscribes, urlParams, isConnected,
                   reconnectAttempts, listeners, closesSinceOpen>>

reconnectTimerFires == reconnectTimerFiresWithin(MaxConnections)

(***************************************************************************)
(* The Execute button and executeTrade, up to its await.                   *)
(***************************************************************************)
\* Variant: the cooldown compared in seconds.
CooldownActive_Seconds(t, last) == t - last < TRADE_COOLDOWN_MS \div 1000

\* now - lastSignalTime < 30000
CooldownActive(t, last) == t - last < TRADE_COOLDOWN_MS

\* tradeHistory.length >= maxTrades
TradeLimitReached(history, limit) == Len(history) >= limit

executeTrade(direction) ==
    IF CooldownActive(now, lastSignalTime)
    THEN /\ lastLog' = "cooldownError"
         /\ lastOp' = Op("executeTrade", "cooldown")
         /\ UNCHANGED <<lastSignalTime, orders, pendingBuys>>
    ELSE /\ lastSignalTime' = now
         /\ IF TradeLimitReached(tradeHistory, maxTrades)
            THEN /\ lastLog' = "limitError"
                 /\ lastOp' = Op("executeTrade", "limit")
                 /\ UNCHANGED <<orders, pendingBuys>>
            ELSE IF currentAccount = "null"
            THEN /\ lastLog' = "sessionError"
                 /\ lastOp' = Op("executeTrade", "session")
                 /\ UNCHANGED <<orders, pendingBuys>>
            ELSE \* api.buy is called; the function suspends at the await
                 /\ orders' = Append(orders, [direction |-> direction, time |-> now,
                                           symbol |-> currentInstrument])
                 /\ pendingBuys' = pendingBuys \cup {Len(orders) + 1}
                 /\ lastOp' = Op("executeTrade", "submitted")
                 /\ UNCHANGED lastLog

\* click on #executeBtn; a disabled button dispatches no click
executeBtnClick ==
    /\ ~executeBtnDisabled
    /\ Len(orders) < MaxOrders
    /\ IF signalDirection # "--"
       THEN executeTrade(signalDirection)
       ELSE /\ lastOp' = Op("executeBtnClick", "noSignal")
            /\ UNCHANGED <<lastSignalTime, orders, pendingBuys, lastLog>>
    /\ UNCHANGED <<now, tickData, historicalData, tradeHistory, currentAccount,
                   signal, signalDirection, executeBtnDisabled, maxTrades,
                   historyFetches, feedVars, historicalInstrument,
                   generateSignalAt, probe,
                   restVars,
                   signalInstrument>>

\* A click after setupEventListeners has run more than once (every
\* authorization adds a click listener): the first listener runs
\* executeTrade as above, and each further one calls it again at the same
\* reading of the clock, where it stops at the cooldown test and shows its
\* error.
executeBtnClickRepeated ==
    /\ ~executeBtnDisabled
    /\ Len(orders) < MaxOrders
    /\ IF signalDirection # "--"
       THEN /\ lastLog' = "cooldownError"
            /\ lastOp' = Op("executeTrade", "cooldown")
            /\ IF CooldownActive(now, lastSignalTime)
               THEN UNCHANGED <<lastSignalTime, orders, pendingBuys>>
               ELSE /\ lastSignalTime' = now
                    /\ IF \/ TradeLimitReached(tradeHistory, maxTrades)
                          \/ currentAccount = "null"
                       THEN UNCHANGED <<orders, pendingBuys>>
                       ELSE /\ orders' =
                                   Append(orders,
                                          [direction |-> signalDirection,
                                           time |-> now,
                                           symbol |-> currentInstrument])
                            /\ pendingBuys' = pendingBuys \cup {Len(orders) + 1}
       ELSE /\ lastOp' = Op("executeBtnClick", "noSignal")
            /\ UNCHANGED <<lastSignalTime, orders, pendingBuys, lastLog>>
    /\ UNCHANGED <<now, tickData, historicalData, tradeHistory, currentAccount,
                   signal, signalDirection, executeBtnDisabled, maxTrades,
                   historyFetches, feedVars, historicalInstrument,
                   generateSignalAt, probe, restVars, signalInstrument>>

\* a click on #executeBtn, whatever the number of listeners; before
\* setupEventListeners has run the button has none
executeBtnClicked ==
    \/ listeners = 1 /\ executeBtnClick
    \/ listeners > 1 /\ executeBtnClickRepeated

(***************************************************************************)
(* executeTrade after its await: the response of api.buy arrives.          *)
(***************************************************************************)
BuyOutcomes == {"profit", "noProfit", "noBuy", "rejected"}

buyResponse(i, outcome) ==
    /\ i \in pendingBuys
    /\ pendingBuys' = pendingBuys \ {i}
    /\ IF outcome \in {"profit", "noProfit"}
       THEN /\ tradeHistory' = Append(tradeHistory,
                                  [id |-> i, direction |-> orders[i].direction,
                                   profit |-> (outcome = "profit")])
            /\ lastLog' = "trade"
            /\ lastOp' = Op("buyResponse", "recorded")
       ELSE /\ lastLog' = "tradeError"
            /\ lastOp' = Op("buyResponse", "failed")
            /\ UNCHANGED tradeHistory
    /\ UNCHANGED <<now, lastSignalTime, tickData, historicalData, currentAccount,
                   signal, signalDirection, executeBtnDisabled, maxTrades,
                   orders, historyFetches, feedVars, historicalInstrument,
                   generateSignalAt, probe,
                   restVars,
                   signalInstrument>>

(***************************************************************************)
(* The clock.                                                              *)
(***************************************************************************)
\* Date.now() is read d ms later by the next handler.
AdvanceClock(d) ==
    /\ now + d <= StartNow + MaxClockSteps * TimeUnit
    /\ now' = now + d
    /\ lastOp' = Op("clock", "clock")
    /\ UNCHANGED <<lastSignalTime, tickData, historicalData, tradeHistory,
                   currentAccount, signal, signalDirection, executeBtnDisabled,
                   maxTrades, orders, pendingBuys, historyFetches, lastLog,
                   feedVars, historicalInstrument, generateSignalAt, probe,
                   restVars,
                   signalInstrument>>

\* the URL the page was opened with
PageUrl == [token |-> "token", accountId |-> "CR1"]

\* The first connection is open and authorized, and the success branch of
\* api.authorize has run.
Authorized ==
    /\ urlParams = PageUrl
    /\ connection = "open"
    /\ isConnected = TRUE
    /\ authorization = "ok"
    /\ reconnectAttempts = 0
    /\ reconnectTimers = <<>>
    /\ connectionCount = 1
    /\ listeners = 1
    /\ closesSinceOpen = 0

(***************************************************************************)
(* The trade gate under a quiet feed: one tick value, every clock reading, *)
(* every order outcome.                                                    *)
(***************************************************************************)
InitCommon ==
    /\ now = StartNow
    /\ lastSignalTime = 0
    /\ tickData = <<>>
    /\ historicalData = <<>>
    /\ tradeHistory = <<>>
    /\ currentAccount = "account"
    /\ signal = NoSignal
    /\ signalDirection = "--"
    /\ executeBtnDisabled = TRUE
    /\ orders = <<>>
    /\ pendingBuys = {}
    /\ historyFetches = 1
    /\ lastLog = "none"
    /\ lastOp = Op("init", "init")
    /\ currentInstrument = DefaultInstrument
    /\ pendingSwitches = {}
    /\ switchCount = 0
    /\ historicalInstrument = "none"
    /\ generateSignalAt = 0
    /\ strategyWeights = DefaultWeights
    /\ signalInstrument = "none"
    /\ Authorized

\* api.subscribe of initializeConnection has resolved: the stream is on.
Subscribed ==
    /\ activeSubscriptions = {Subscription(0, DefaultInstrument)}
    /\ pendingSubscribes = {}

\* api.subscribe of initializeConnection is still in flight.
Subscribing ==
    /\ activeSubscriptions = {}
    /\ pendingSubscribes = {Subscription(0, DefaultInstrument)}

Init ==
    /\ InitCommon
    /\ Subscribed
    /\ probe = NoProbe
    /\ maxTrades \in 1..MaxMaxTrades

\* The checks are evaluated only by a tick that finds a signal due.
WhenDue(oracles) ==
    IF SignalDue(now, lastSignalTime) THEN oracles ELSE {AllNeutral}

GateTicks == {[quote |-> 1, epoch |-> 185]}

\* A cycle of the quiet feed finds no confirmation or one bullish EMA cross.
GateOracles ==
    {o \in Oracles : /\ o.emaCross.direction # "bearish"
                     /\ o.rsiSignal = Neutral
                     /\ o.macd = Neutral
                     /\ o.bollinger = Neutral}

GateHistories == {<<>>}

Next ==
    \/ AdvanceClock(TimeUnit)
    \/ \E tick \in GateTicks, oracle \in WhenDue(GateOracles) :
           processTick(tick, oracle)
    \/ \E candles \in GateHistories : loadHistoricalDataResolve(candles)
    \/ loadHistoricalDataFail
    \/ executeBtnClick
    \/ \E i \in 1..MaxOrders, outcome \in BuyOutcomes : buyResponse(i, outcome)

Spec == Init /\ [][Next]_vars

(***************************************************************************)
(* The same page when time passes and ticks keep arriving: the clock is    *)
(* read later and later up to its last reading, and the stream delivers    *)
(* a tick after every reading.  The trade limit is 1, so that attempts     *)
(* denied by the limit occur.                                              *)
(***************************************************************************)
InitLive ==
    /\ InitCommon
    /\ Subscribed
    /\ probe = NoProbe
    /\ maxTrades = 1

tickArrives ==
    \E tick \in GateTicks, oracle \in WhenDue(GateOracles) :
        processTick(tick, oracle)

NextLive ==
    \/ AdvanceClock(TimeUnit)
    \/ tickArrives
    \/ executeBtnClick
    \/ \E i \in 1..MaxOrders, outcome \in BuyOutcomes : buyResponse(i, outcome)

SpecLive ==
    /\ InitLive
    /\ [][NextLive]_vars
    /\ WF_vars(AdvanceClock(TimeUnit))
    /\ WF_vars(tickArrives)

(***************************************************************************)
(* The candle store under a busy feed: several quotes, ticks in the same   *)
(* bucket, in later buckets and in earlier ones, before and after the      *)
(* history response.  The clock stands still, so only the first tick finds *)
(* a signal due.                                                           *)
(***************************************************************************)
InitCandle ==
    /\ InitCommon
    /\ Subscribed
    /\ probe = NoProbe
    /\ maxTrades = DefaultMaxTrades

CandleQuotes == {1, 3}

\* two epochs of the bucket the loaded history ends with, one of the next
CandleEpochs == {185, 240}

CandleTicks == [quote : CandleQuotes, epoch : CandleEpochs]

\* A getTickHistory response: n one-minute candles, ordered, one per bucket.
\* The newest candle is the one of bucket 180.
LoadedCandle(age) ==
    [time |-> 180 - age * CANDLE_SECONDS, open |-> 2, high |-> 3, low |-> 1,
     close |-> 2]

LoadedHistory(n) == [i \in 1..n |-> LoadedCandle(n - i)]

CandleHistories == {LoadedHistory(n) : n \in 0..MAX_TICKS}

NextCandle ==
    \/ \E tick \in CandleTicks : processTick(tick, AllNeutral)
    \/ \E candles \in CandleHistories : loadHistoricalDataResolve(candles)
    \/ loadHistoricalDataFail

SpecCandle == InitCandle /\ [][NextCandle]_vars

(***************************************************************************)
(* The aggregator under every combination of check results: the history    *)
(* response ends with a falling or a rising candle, the ticks open and     *)
(* close the next candle below or above it, and the clock jumps past the   *)
(* signal interval.                                                        *)
(***************************************************************************)
SignalTicks == [quote : {1, 4}, epoch : {240}]

FallingCandle == [time |-> 180, open |-> 3, high |-> 3, low |-> 2, close |-> 2]

RisingCandle == [time |-> 180, open |-> 2, high |-> 3, low |-> 2, close |-> 3]

SignalHistories ==
    {<<LoadedCandle(1), FallingCandle>>, <<LoadedCandle(1), RisingCandle>>}

\* The first tick of the page finds every numeric indicator short of
\* history; later cycles meet every combination of results.
SignalOracles == IF tickData = <<>> THEN {AllNeutral} ELSE Oracles

NextSignal ==
    \/ AdvanceClock(SIGNAL_INTERVAL_MS + TimeUnit)
    \/ \E tick \in SignalTicks, oracle \in WhenDue(SignalOracles) :
           processTick(tick, oracle)
    \/ \E candles \in SignalHistories : loadHistoricalDataResolve(candles)
    \/ loadHistoricalDataFail

SpecSignal == InitCandle /\ [][NextSignal]_vars

(***************************************************************************)
(* The same feed on the page of part_001, whose processTick and            *)
(* generateSignal have no try blocks.                                      *)
(***************************************************************************)
NextUnguarded ==
    \/ AdvanceClock(SIGNAL_INTERVAL_MS + TimeUnit)
    \/ \E tick \in SignalTicks, oracle \in WhenDue(SignalOracles) :
           processTickUnguarded(tick, oracle)
    \/ \E candles \in SignalHistories : loadHistoricalDataResolve(candles)
    \/ loadHistoricalDataFail

SpecUnguarded == InitCandle /\ [][NextUnguarded]_vars

(***************************************************************************)
(* The candle store under a feed that also delivers ticks whose quote or   *)
(* epoch holds no number.                                                  *)
(***************************************************************************)
MalformedTicks == [quote : {2, NonNumeric}, epoch : {185, NonNumeric}]

MalformedHistories == {LoadedHistory(1)}

NextMalformed ==
    \/ \E tick \in MalformedTicks : processTick(tick, AllNeutral)
    \/ \E candles \in MalformedHistories : loadHistoricalDataResolve(candles)
    \/ loadHistoricalDataFail

SpecMalformed == InitCandle /\ [][NextMalformed]_vars

(***************************************************************************)
(* The instrument selector: change events while the first subscription,    *)
(* the first history request and those of earlier changes are in flight.   *)
(***************************************************************************)
InitSwitch ==
    /\ InitCommon
    /\ Subscribing
    /\ probe = NoProbe
    /\ maxTrades = DefaultMaxTrades

SwitchTicks == {[quote |-> 1, epoch |-> 185]}

SwitchHistories == {LoadedHistory(1)}

NextSwitch ==
    \/ \E value \in Instruments : instrumentChange(value)
    \/ \E h \in pendingSwitches, candles \in SwitchHistories :
           switchFetchResolve(h, candles)
    \/ \E h \in pendingSwitches : switchFetchFail(h)
    \/ \E sub \in pendingSubscribes : subscribeResolve(sub)
    \/ \E sub \in pendingSubscribes : subscribeFail(sub)
    \/ \E sub \in activeSubscriptions, tick \in SwitchTicks :
           onUpdate(sub, tick, AllNeutral)
    \/ \E candles \in SwitchHistories : loadHistoricalDataResolve(candles)
    \/ loadHistoricalDataFail

SpecSwitch == InitSwitch /\ [][NextSwitch]_vars

(***************************************************************************)
(* The Execute button while instruments are switched: the stream is on,    *)
(* a signal cycle finds one bullish confirmation or none, the clock is     *)
(* read a trade cooldown later each time, and the broker has not answered  *)
(* the orders yet.                                                         *)
(***************************************************************************)
InitOrder ==
    /\ InitCommon
    /\ Subscribed
    /\ probe = NoProbe
    /\ maxTrades = DefaultMaxTrades

NextOrder ==
    \/ AdvanceClock(TRADE_COOLDOWN_MS)
    \/ \E value \in Instruments : instrumentChange(value)
    \/ \E h \in pendingSwitches, candles \in SwitchHistories :
           switchFetchResolve(h, candles)
    \/ \E sub \in pendingSubscribes : subscribeResolve(sub)
    \/ \E sub \in activeSubscriptions, tick \in SwitchTicks,
          oracle \in WhenDue(GateOracles) :
           onUpdate(sub, tick, oracle)
    \/ executeBtnClick

SpecOrder == InitOrder /\ [][NextOrder]_vars

(***************************************************************************)
(* The connection from the page load on: every URL with or without its     *)
(* two parameters, every answer to api.authorize, sockets that close       *)
(* before or after they open.                                              *)
(***************************************************************************)
PageUrls == [token : {"", "token"}, accountId : {"", "CR1"}]

\* the page before DOMContentLoaded
InitUnloaded ==
    /\ now = StartNow
    /\ lastSignalTime = 0
    /\ tickData = <<>>
    /\ historicalData = <<>>
    /\ tradeHistory = <<>>
    /\ currentAccount = "null"
    /\ signal = NoSignal
    /\ signalDirection = "--"
    /\ executeBtnDisabled = TRUE
    /\ maxTrades = DefaultMaxTrades
    /\ orders = <<>>
    /\ pendingBuys = {}
    /\ historyFetches = 0
    /\ lastLog = "none"
    /\ lastOp = Op("init", "init")
    /\ currentInstrument = DefaultInstrument
    /\ activeSubscriptions = {}
    /\ pendingSubscribes = {}
    /\ pendingSwitches = {}
    /\ switchCount = 0
    /\ historicalInstrument = "none"
    /\ generateSignalAt = 0
    /\ probe = NoProbe
    /\ strategyWeights = DefaultWeights
    /\ signalInstrument = "none"
    /\ urlParams \in PageUrls
    /\ connection = "unloaded"
    /\ isConnected = FALSE
    /\ authorization = "none"
    /\ reconnectAttempts = 0
    /\ reconnectTimers = <<>>
    /\ connectionCount = 0
    /\ listeners = 0
    /\ closesSinceOpen = 0

NextReconnect ==
    \/ DOMContentLoaded
    \/ onopen
    \/ \E response \in AuthResponses : authorizeSettles(response)
    \/ onclose
    \/ onerror
    \/ reconnectTimerFires

SpecReconnect == InitUnloaded /\ [][NextReconnect]_vars

(***************************************************************************)
(* The page from its load on, with its requests: the history and the       *)
(* stream of each authorized connection, the clock read a trade cooldown   *)
(* later each time, and clicks on the Execute button.  The broker has not  *)
(* answered the orders yet.                                                *)
(***************************************************************************)
\* the stream of the newest connection delivers a tick
streamTick ==
    \E sub \in activeSubscriptions, tick \in GateTicks,
       oracle \in WhenDue(GateOracles) :
        /\ connection = "open"
        /\ sub.id = StreamId
        /\ onUpdate(sub, tick, oracle)

NextConnect ==
    \/ DOMContentLoaded
    \/ onopen
    \/ \E response \in AuthResponses : authorizeSettles(response)
    \/ onclose
    \/ reconnectTimerFiresWithin(MaxPageConnections)
    \/ \E sub \in pendingSubscribes : subscribeResolve(sub)
    \/ \E candles \in GateHistories : loadHistoricalDataResolve(candles)
    \/ streamTick
    \/ AdvanceClock(TRADE_COOLDOWN_MS)
    \/ executeBtnClicked

SpecConnect == InitUnloaded /\ [][NextConnect]_vars

(***************************************************************************)
(* checkVolume evaluated alone on every tick buffer of up to               *)
(* ProbeVolumeWindow + 1 ticks over three quotes.                          *)
(***************************************************************************)
ProbeQuotes == {1, 2, 3}

TicksOf(quotes) == [i \in 1..Len(quotes) |-> [quote |-> quotes[i], epoch |-> 185]]

ProbeTickBuffers ==
    {TicksOf(quotes) :
        quotes \in UNION {[1..n -> ProbeQuotes] : n \in 0..(ProbeVolumeWindow + 1)}}

Input(arg) == [fn |-> "input", arg |-> arg, out |-> <<>>]

InitVolume ==
    /\ InitCommon
    /\ Subscribed
    /\ maxTrades = DefaultMaxTrades
    /\ probe \in {Input(td) : td \in ProbeTickBuffers}

evalCheckVolume ==
    /\ probe.fn = "input"
    /\ probe' = [fn |-> "checkVolume", arg |-> probe.arg,
                 out |-> checkVolumeOver(probe.arg, ProbeVolumeWindow)]
    /\ UNCHANGED <<now, lastSignalTime, tickData, historicalData, tradeHistory,
                   currentAccount, signal, signalDirection, executeBtnDisabled,
                   maxTrades, orders, pendingBuys, historyFetches, lastLog,
                   lastOp, feedVars, historicalInstrument, generateSignalAt, restVars,
                   signalInstrument>>

NextVolume == evalCheckVolume

SpecVolume == InitVolume /\ [][NextVolume]_vars

(***************************************************************************)
(* checkMACD evaluated alone on every series of closes of up to            *)
(* ProbeCandles candles, with short periods in place of 12, 26 and 9.      *)
(***************************************************************************)
ProbeFast == 2

ProbeSlow == 3

ProbeSignal == 2

\* enough candles for a signal line of two values over the slow average
ProbeCandles == ProbeSlow + ProbeSignal + 1

ProbeCloses ==
    UNION {[1..n -> 1..ProbeCloseLevels] : n \in 0..ProbeCandles}

InitMACD ==
    /\ InitCommon
    /\ Subscribed
    /\ maxTrades = DefaultMaxTrades
    /\ probe \in {Input(closes) : closes \in ProbeCloses}

evalCheckMACD ==
    /\ probe.fn = "input"
    /\ probe' = [fn |-> "checkMACD", arg |-> probe.arg,
                 out |-> checkMACDOver([i \in 1..Len(probe.arg) |->
                                           ToRat(probe.arg[i])],
                                       ProbeFast, ProbeSlow, ProbeSignal)]
    /\ UNCHANGED <<now, lastSignalTime, tickData, historicalData, tradeHistory,
                   currentAccount, signal, signalDirection, executeBtnDisabled,
                   maxTrades, orders, pendingBuys, historyFetches, lastLog,
                   lastOp, feedVars, historicalInstrument, generateSignalAt, restVars,
                   signalInstrument>>

NextMACD == evalCheckMACD

SpecMACD == InitMACD /\ [][NextMACD]_vars

(***************************************************************************)
(* calculateEMA evaluated alone on the same series of closes, with the     *)
(* short periods.                                                          *)
(***************************************************************************)
ProbePeriods == {ProbeFast, ProbeSlow}

RatsOf(closes) == [i \in 1..Len(closes) |-> ToRat(closes[i])]

evalCalculateEMA(period) ==
    /\ probe.fn = "input"
    /\ probe' = [fn |-> "calculateEMA", arg |-> probe.arg, period |-> period,
                 out |-> calculateEMA(period, RatsOf(probe.arg))]
    /\ UNCHANGED <<now, lastSignalTime, tickData, historicalData, tradeHistory,
                   currentAccount, signal, signalDirection, executeBtnDisabled,
                   maxTrades, orders, pendingBuys, historyFetches, lastLog,
                   lastOp, feedVars, historicalInstrument, generateSignalAt, restVars,
                   signalInstrument>>

NextEMA == \E period \in ProbePeriods : evalCalculateEMA(period)

SpecEMA == InitMACD /\ [][NextEMA]_vars

(***************************************************************************)
(* checkEMACross fed candle by candle: each new candle is appended to the  *)
(* series and checkEMACross is evaluated on the series so far.  The closes *)
(* have as many levels as the series has candles, so that a series can     *)
(* rise at every candle.                                                   *)
(***************************************************************************)
CrossCloses == 1..ProbeCandles

InitCross ==
    /\ InitCommon
    /\ Subscribed
    /\ maxTrades = DefaultMaxTrades
    /\ probe = [fn |-> "checkEMACross", arg |-> <<>>, out |-> <<>>]

feedCandle(close) ==
    /\ probe.fn = "checkEMACross"
    /\ Len(probe.arg) < ProbeCandles
    /\ LET closes == Append(probe.arg, close)
       IN  probe' = [fn |-> "checkEMACross", arg |-> closes,
                     out |-> Append(probe.out,
                                    checkEMACrossOver(RatsOf(closes),
                                                      ProbeFast, ProbeSlow))]
    /\ UNCHANGED <<now, lastSignalTime, tickData, historicalData, tradeHistory,
                   currentAccount, signal, signalDirection, executeBtnDisabled,
                   maxTrades, orders, pendingBuys, historyFetches, lastLog,
                   lastOp, feedVars, historicalInstrument, generateSignalAt, restVars,
                   signalInstrument>>

NextCross == \E close \in CrossCloses : feedCandle(close)

SpecCross == InitCross /\ [][NextCross]_vars

(***************************************************************************)
(* calculateRSI evaluated alone on the same series of closes, with a short *)
(* period in place of 14.                                                  *)
(***************************************************************************)
ProbeRsi == 2

evalCalculateRSI ==
    /\ probe.fn = "input"
    /\ probe' = [fn |-> "calculateRSI", arg |-> probe.arg,
                 out |-> calculateRSI(ProbeRsi, RatsOf(probe.arg))]
    /\ UNCHANGED <<now, lastSignalTime, tickData, historicalData, tradeHistory,
                   currentAccount, signal, signalDirection, executeBtnDisabled,
                   maxTrades, orders, pendingBuys, historyFetches, lastLog,
                   lastOp, feedVars, historicalInstrument, generateSignalAt, restVars,
                   signalInstrument>>

NextRSI == evalCalculateRSI

SpecRSI == InitMACD /\ [][NextRSI]_vars

(***************************************************************************)
(* martingale, atr and adx of options_script.js evaluated alone: every     *)
(* trade history of up to MaxProbeTrades trades, ATR arrays with a last    *)
(* value above, near and below the average, ADX values around 20 and 25.   *)
(***************************************************************************)
Trades == {Trade(d, p) : d \in {"BUY", "SELL"}, p \in BOOLEAN}

ProbeHistories == UNION {[1..n -> Trades] : n \in 0..MaxProbeTrades}

ProbeAtrValues == UNION {[1..n -> {1, 2, 8}] : n \in 1..3}

ProbeRealtime == {TicksOf(quotes) : quotes \in [1..2 -> {1, 2}]}

ProbeAdxValues == {15, 20, 22, 25, 30}

ProbeDiValues == {10, 20}

StrategyInputs ==
    {[kind |-> "martingale", history |-> h] : h \in ProbeHistories}
    \cup {[kind |-> "atr", atrValues |-> a, realtime |-> r] :
              a \in ProbeAtrValues, r \in ProbeRealtime}
    \cup {[kind |-> "adx", currentADX |-> x, plusDI |-> p, minusDI |-> m] :
              x \in ProbeAdxValues, p \in ProbeDiValues, m \in ProbeDiValues}

InitStrategy ==
    /\ InitCommon
    /\ Subscribed
    /\ maxTrades = DefaultMaxTrades
    /\ probe \in {Input(arg) : arg \in StrategyInputs}

ProbeUnchanged ==
    UNCHANGED <<now, lastSignalTime, tickData, historicalData, tradeHistory,
                currentAccount, signal, signalDirection, executeBtnDisabled,
                maxTrades, orders, pendingBuys, historyFetches, lastLog,
                lastOp, feedVars, historicalInstrument, generateSignalAt, restVars,
                   signalInstrument>>

evalMartingale ==
    /\ probe.fn = "input"
    /\ probe.arg.kind = "martingale"
    /\ probe' = [fn |-> "martingale", arg |-> probe.arg,
                 out |-> martingale(probe.arg.history)]
    /\ ProbeUnchanged

evalAtr ==
    /\ probe.fn = "input"
    /\ probe.arg.kind = "atr"
    /\ probe' = [fn |-> "atr", arg |-> probe.arg,
                 out |-> atr(probe.arg.atrValues, probe.arg.realtime)]
    /\ ProbeUnchanged

evalAdx ==
    /\ probe.fn = "input"
    /\ probe.arg.kind = "adx"
    /\ probe' = [fn |-> "adx", arg |-> probe.arg,
                 out |-> adx(probe.arg.currentADX, probe.arg.plusDI,
                             probe.arg.minusDI)]
    /\ ProbeUnchanged

NextStrategy ==
    \/ evalMartingale
    \/ evalAtr
    \/ evalAdx

SpecStrategy == InitStrategy /\ [][NextStrategy]_vars

(***************************************************************************)
(* The page of options_script.js: its executeTrade, with the response of   *)
(* api.buy taken at once, and strategies.selfLearning, the one function    *)
(* that assigns to strategyWeights.  The strategies selfLearning calls     *)
(* read the page state and write none of it.                               *)
(***************************************************************************)
scriptExecuteTrade(direction, outcome) ==
    /\ ~CooldownActive(now, lastSignalTime)
    /\ lastSignalTime' = now
    /\ IF TradeLimitReached(tradeHistory, maxTrades)
       THEN /\ lastLog' = "limitError"
            /\ lastOp' = Op("executeTrade", "limit")
            /\ UNCHANGED tradeHistory
       ELSE IF outcome = "rejected"
       THEN /\ lastLog' = "tradeError"
            /\ lastOp' = Op("executeTrade", "failed")
            /\ UNCHANGED tradeHistory
       ELSE /\ tradeHistory' = Append(tradeHistory,
                                      Trade(direction, outcome = "profit"))
            /\ lastLog' = "trade"
            /\ lastOp' = Op("executeTrade", "recorded")
    /\ UNCHANGED <<now, tickData, historicalData, currentAccount, signal,
                   signalDirection, executeBtnDisabled, maxTrades, orders,
                   pendingBuys, historyFetches, feedVars, historicalInstrument,
                   generateSignalAt, probe, restVars,
                   signalInstrument>>

selfLearning ==
    /\ IF Len(tradeHistory) < LEARNING_WINDOW
       THEN /\ lastOp' = Op("selfLearning", "tooFewTrades")
            /\ UNCHANGED strategyWeights
       ELSE /\ strategyWeights' =
                   AdjustedWeights(strategyWeights,
                                   LastN(tradeHistory, LEARNING_WINDOW))
            /\ lastOp' = Op("selfLearning", "adjusted")
    /\ UNCHANGED <<now, lastSignalTime, tickData, historicalData, tradeHistory,
                   currentAccount, signal, signalDirection, executeBtnDisabled,
                   maxTrades, orders, pendingBuys, historyFetches, lastLog,
                   feedVars, historicalInstrument, generateSignalAt, probe,
                   signalInstrument, connVars>>

InitWeights ==
    /\ InitCommon
    /\ Subscribed
    /\ probe = NoProbe
    /\ maxTrades = MaxProbeTrades

NextWeights ==
    \/ AdvanceClock(TimeUnit)
    \/ \E direction \in {"BUY", "SELL"}, outcome \in {"profit", "noProfit", "rejected"} :
           scriptExecuteTrade(direction, outcome)
    \/ selfLearning

SpecWeights == InitWeights /\ [][NextWeights]_vars

(***************************************************************************)
(* The trade gate: C1 .. C5.                                               *)
(***************************************************************************)
\* A step that ran executeTrade: every action records itself in lastOp, so a
\* step that changes the state and ends with lastOp.op = "executeTrade" is one.
ExecuteTradeStep == lastOp'.op = "executeTrade" /\ vars' # vars

OrdersSpacedByCooldown ==
    \A i, j \in DOMAIN orders :
        i < j => orders[j].time - orders[i].time >= TRADE_COOLDOWN_MS

\* C1: any two api.buy calls are at least 30000 ms apart, and an executeTrade
\* call made less than 30000 ms after the last submitted order is denied for
\* cooldown and submits no order.
C1_TradeCooldown ==
    /\ []OrdersSpacedByCooldown
    /\ [][(/\ ExecuteTradeStep
           /\ orders # <<>>
           /\ now - orders[Len(orders)].time < TRADE_COOLDOWN_MS)
          => (lastOp'.branch = "cooldown" /\ orders' = orders)]_vars

\* C1 witness: two orders were submitted and a later attempt, made inside the
\* cooldown of the second one, was denied.
C1_Witness ==
    /\ Len(orders) >= 2
    /\ lastOp.op = "executeTrade" /\ lastOp.branch = "cooldown"
    /\ now - orders[Len(orders)].time < TRADE_COOLDOWN_MS
    /\ now > orders[Len(orders)].time

\* C2 (as claimed): the orders sent to the broker and not refused, recorded in
\* tradeHistory or still awaiting their response, never exceed maxTrades.
C2_TradeLimit == Len(tradeHistory) + Cardinality(pendingBuys) <= maxTrades

\* C3 (as claimed): an executeTrade call made at least 30000 ms after the last
\* submitted order, or before any order, with fewer than maxTrades recorded
\* trades, submits the order.
C3_GateAllows ==
    [][(/\ ExecuteTradeStep
        /\ orders = <<>> \/ now - orders[Len(orders)].time >= TRADE_COOLDOWN_MS
        /\ Len(tradeHistory) < maxTrades)
       => lastOp'.branch = "submitted"]_vars

\* C4 (as claimed): executeTrade advances the cooldown timestamp exactly when
\* it allows the attempt, and an attempt denied for cooldown or for the trade
\* limit leaves the timestamp and tradeHistory unchanged.
C4_TimestampOnlyOnAllow ==
    [][ExecuteTradeStep
       => /\ (lastSignalTime' # lastSignalTime) <=> (lastOp'.branch = "submitted")
          /\ lastOp'.branch \in {"cooldown", "limit"}
                => (lastSignalTime' = lastSignalTime /\ tradeHistory' = tradeHistory)]_vars

RECURSIVE ConsecutiveLosses(_)
\* the number of losing trades at the end of the history
ConsecutiveLosses(history) ==
    IF history = <<>> \/ history[Len(history)].profit THEN 0
    ELSE 1 + ConsecutiveLosses(SubSeq(history, 1, Len(history) - 1))

\* C5 (as claimed): once the losing streak has reached the ceiling, no order
\* is submitted.
C5_LossStreakHalts ==
    [][ConsecutiveLosses(tradeHistory) >= MaxConsecutiveLosses
       => orders' = orders]_vars

(***************************************************************************)
(* The aggregator: C6, C7.                                                 *)
(***************************************************************************)
Fired(sig) ==
    Cardinality(DOMAIN sig.strategyConfirmations)
        + Cardinality(DOMAIN sig.indicatorConfirmations)

Votes(sig, d) ==
    Cardinality({n \in DOMAIN sig.strategyConfirmations :
                    sig.strategyConfirmations[n].direction = d})
        + Cardinality({n \in DOMAIN sig.indicatorConfirmations :
                          sig.indicatorConfirmations[n].direction = d})

\* C6: every displayed signal has a confidence within [0,100]; its direction
\* is "--" with confidence 0 exactly when no confirmation fired, and BUY or
\* SELL whenever one fired.
C6_SignalWellFormed ==
    /\ signal.confidence.den > 0
    /\ 0 <= signal.confidence.num
    /\ signal.confidence.num <= 100 * signal.confidence.den
    /\ signal.direction \in {"--", "BUY", "SELL"}
    /\ (signal.direction = "--" /\ signal.confidence.num = 0) <=> (Fired(signal) = 0)
    /\ Fired(signal) > 0 => signal.direction \in {"BUY", "SELL"}

\* C6 witness: a cycle displayed a SELL signal carried by an indicator
\* confirmation alone.
C6_Witness ==
    /\ lastOp.op = "processTick" /\ lastOp.branch = "signal"
    /\ DOMAIN signal.strategyConfirmations = {}
    /\ DOMAIN signal.indicatorConfirmations # {}
    /\ signal.direction = "SELL"

\* C7: with b bullish and s bearish confirmations, b + s > 0, the signal is
\* BUY iff b > s and SELL otherwise, and its confidence is
\* 100 * max(b, s) / (b + s).
C7_UnweightedVote ==
    LET b == Votes(signal, "bullish")
        s == Votes(signal, "bearish")
    IN  b + s > 0 =>
            /\ (signal.direction = "BUY") <=> (b > s)
            /\ (signal.direction = "SELL") <=> (b <= s)
            /\ signal.confidence.num * (b + s)
                  = 100 * Max(b, s) * signal.confidence.den

\* C7 witness: two bullish confirmations against one bearish give BUY with
\* confidence 200/3.
C7_Witness ==
    /\ lastOp.op = "processTick" /\ lastOp.branch = "signal"
    /\ Votes(signal, "bullish") = 2
    /\ Votes(signal, "bearish") = 1
    /\ signal.direction = "BUY"
    /\ 3 * signal.confidence.num = 200 * signal.confidence.den

(***************************************************************************)
(* The candle store: C8, C9, C10.                                          *)
(***************************************************************************)
\* A step that ran processTick.
ProcessTickStep == lastOp'.op = "processTick" /\ vars' # vars

\* C8 (as claimed): the candle times of historicalData are strictly
\* increasing.
C8_StrictlyIncreasingTimes ==
    \A i \in 1..(Len(historicalData) - 1) :
        historicalData[i].time < historicalData[i + 1].time

C10_BoundedFifo ==
    /\ [](Len(tickData) <= MAX_TICKS /\ Len(historicalData) <= MAX_TICKS)
    /\ [][ProcessTickStep =>
            /\ tickData' = LastN(Append(tickData, lastOp'.tick), MAX_TICKS)
            /\ Len(historicalData') > 0
            /\ (\/ historicalData = <<>>
                \/ BucketOf(lastOp'.tick.epoch)
                      # historicalData[Len(historicalData)].time)
               => historicalData'
                     = LastN(Append(historicalData,
                                    historicalData'[Len(historicalData')]),
                             MAX_TICKS)]_vars

\* C10 witness: a tick found both buffers full, and both dropped their
\* oldest element.
C10_Witness ==
    /\ lastOp.op = "processTick"
    /\ lastOp.buffer = "pushShift"
    /\ lastOp.candle = "appendShift"
    /\ Len(tickData) = MAX_TICKS
    /\ Len(historicalData) = MAX_TICKS

\* C11: a tick of the last candle's bucket changes only that candle, to
\* high = max(high, quote), low = min(low, quote), close = quote, with open
\* and time kept; any other tick appends one candle with open = high = low =
\* close = quote; every candle before the last one of the resulting series
\* is a candle of the previous series with its previous values.
C11_CandleFrame ==
    [][ProcessTickStep =>
        LET quote == lastOp'.tick.quote
            bucket == (lastOp'.tick.epoch \div CANDLE_SECONDS) * CANDLE_SECONDS
            n == Len(historicalData)
            m == Len(historicalData')
        IN  IF n > 0 /\ historicalData[n].time = bucket
            THEN /\ m = n
                 /\ \A i \in 1..(n - 1) : historicalData'[i] = historicalData[i]
                 /\ historicalData'[n] =
                       [time |-> historicalData[n].time,
                        open |-> historicalData[n].open,
                        high |-> IF quote > historicalData[n].high
                                 THEN quote ELSE historicalData[n].high,
                        low |-> IF quote < historicalData[n].low
                                THEN quote ELSE historicalData[n].low,
                        close |-> quote]
            ELSE /\ m = (IF n < MAX_TICKS THEN n + 1 ELSE n)
                 /\ historicalData'[m] =
                       [time |-> bucket, open |-> quote, high |-> quote,
                        low |-> quote, close |-> quote]
                 /\ \A i \in 1..(m - 1) :
                       historicalData'[i] = historicalData[n - (m - 1) + i]]_vars

\* C11 witness: a tick above the high of the last candle was merged into it
\* while earlier candles stood before it.
C11_Witness ==
    /\ lastOp.op = "processTick" /\ lastOp.candle = "update"
    /\ Len(historicalData) >= 2
    /\ historicalData[Len(historicalData)].high = lastOp.tick.quote
    /\ historicalData[Len(historicalData)].open < lastOp.tick.quote

\* C12 (as claimed): a tick whose quote or epoch is not numeric changes
\* neither tickData nor historicalData.
C12_MalformedDropped ==
    [][(/\ ProcessTickStep
        /\ lastOp'.tick.quote = NaN \/ lastOp'.tick.epoch = NonNumeric)
       => (tickData' = tickData /\ historicalData' = historicalData)]_vars

(***************************************************************************)
(* The instrument selector: C13, C14.                                      *)
(***************************************************************************)
\* C13 (as claimed, at the moments no change handler and no subscribe call
\* is pending): at most one tick subscription is active and it streams the
\* current instrument.
C13_OneSubscriptionOfCurrent ==
    (pendingSwitches = {} /\ pendingSubscribes = {})
        => /\ Cardinality(activeSubscriptions) <= 1
           /\ \A sub \in activeSubscriptions : sub.symbol = currentInstrument

\* C14 (as claimed): when the last history request in flight delivers its
\* candles, historicalData holds candles of currentInstrument.
C14_StaleHistoryDiscarded ==
    (/\ pendingSwitches = {}
     /\ historyFetches = 0
     /\ lastOp.branch = "loaded")
        => historicalInstrument = currentInstrument

(***************************************************************************)
(* The signal cycle: C15, C16.                                             *)
(***************************************************************************)
\* A step in which processTick called generateSignal.
GenerateSignalStep ==
    ProcessTickStep /\ lastOp'.branch \in {"signal", "signalThrew"}

\* C15 (as claimed): a call of generateSignal comes more than 60000 ms after
\* the call before it, whether that one displayed a signal or raised.
C15_SignalThrottle ==
    [][(GenerateSignalStep /\ generateSignalAt # 0)
       => now - generateSignalAt > SIGNAL_INTERVAL_MS]_vars

\* C16 (as claimed): a cycle in which a check raises still aggregates the
\* other checks and displays one signal, so every call of generateSignal
\* reaches displaySignal.
C16_ErrorIsolation ==
    [][GenerateSignalStep
       => (lastOp'.branch = "signal" /\ lastLog' = "signal")]_vars

(***************************************************************************)
(* Late ticks: C17.                                                        *)
(***************************************************************************)
\* C17 (as claimed): a tick whose bucket is older than the last candle's
\* creates no candle: the series keeps its length and its last candle takes
\* the quote into high, low and close.
C17_LateTickExtendsLast ==
    [][(/\ ProcessTickStep
        /\ historicalData # <<>>
        /\ (lastOp'.tick.epoch \div CANDLE_SECONDS) * CANDLE_SECONDS
              < historicalData[Len(historicalData)].time)
       => LET n == Len(historicalData)
              quote == lastOp'.tick.quote
          IN  /\ Len(historicalData') = n
              /\ historicalData'[n].time = historicalData[n].time
              /\ historicalData'[n].close = quote
              /\ historicalData'[n].high >= quote
              /\ historicalData'[n].low <= quote]_vars

(***************************************************************************)
(* checkVolume: C18, C19.                                                  *)
(***************************************************************************)
\* C18 (as claimed): checkVolume raises on no tick buffer; below the window
\* it returns the neutral result.
C18_VolumeTotal ==
    probe.fn = "checkVolume"
        => /\ probe.out # TypeError
           /\ Len(probe.arg) < ProbeVolumeWindow => probe.out = Neutral

\* up-ticks and down-ticks of the window against the tick before it
UpTicks(td) ==
    Cardinality({i \in (Len(td) - ProbeVolumeWindow + 1)..Len(td) :
                    td[i].quote > td[Len(td) - ProbeVolumeWindow].quote})

DownTicks(td) ==
    Cardinality({i \in (Len(td) - ProbeVolumeWindow + 1)..Len(td) :
                    td[i].quote < td[Len(td) - ProbeVolumeWindow].quote})

\* C19 (as claimed): bullish whenever u >= 1.5 d and u > d, bearish whenever
\* d >= 1.5 u and d > u, neutral otherwise.
C19_ThresholdInclusive ==
    (probe.fn = "checkVolume" /\ Len(probe.arg) > ProbeVolumeWindow)
        => LET u == UpTicks(probe.arg)
               d == DownTicks(probe.arg)
           IN  probe.out =
                  IF 2 * u >= 3 * d /\ u > d THEN Result(60, "bullish")
                  ELSE IF 2 * d >= 3 * u /\ d > u THEN Result(60, "bearish")
                  ELSE Neutral

\* C19 (amended): with a reference tick before the window, checkVolume
\* returns bullish exactly when u > 1.5 d, bearish exactly when d > 1.5 u,
\* and neutral otherwise, the boundary u = 1.5 d included.
C19_ThresholdStrict ==
    (probe.fn = "checkVolume" /\ Len(probe.arg) > ProbeVolumeWindow)
        => LET u == UpTicks(probe.arg)
               d == DownTicks(probe.arg)
           IN  probe.out =
                  IF 2 * u > 3 * d THEN Result(60, "bullish")
                  ELSE IF 2 * d > 3 * u THEN Result(60, "bearish")
                  ELSE Neutral

\* C19 witness: 3 up-ticks against 2 down-ticks, and the result is neutral.
C19_Witness ==
    /\ probe.fn = "checkVolume"
    /\ Len(probe.arg) > ProbeVolumeWindow
    /\ UpTicks(probe.arg) = 3
    /\ DownTicks(probe.arg) = 2
    /\ probe.out = Neutral

(***************************************************************************)
(* checkMACD: C20.                                                         *)
(***************************************************************************)
\* The EMA of the claim at candle t (t >= period): the average of the first
\* period values at t = period, then (x[t] - ema[t-1]) * 2/(period+1) + ema[t-1].
RECURSIVE EmaAt(_, _, _)
EmaAt(data, period, t) ==
    IF t = period THEN RMul(RSum(SubSeq(data, 1, period)), Rat(1, period))
    ELSE LET before == EmaAt(data, period, t - 1)
         IN  RAdd(RMul(RSub(data[t], before), Rat(2, period + 1)), before)

\* macdLine of the claim: EMA fast minus EMA slow at the same candle, for
\* the candles from the slow period on
MacdLineOf(closes) ==
    [k \in 1..(Len(closes) - ProbeSlow + 1) |->
        RSub(EmaAt(closes, ProbeFast, k + ProbeSlow - 1),
             EmaAt(closes, ProbeSlow, k + ProbeSlow - 1))]

\* the result the claim gives for a series of closes
MacdCrossOf(closes) ==
    LET data == [i \in 1..Len(closes) |-> ToRat(closes[i])]
        macd == MacdLineOf(data)
        m == Len(macd)
    IN  IF m <= ProbeSignal THEN "neutral"
        ELSE LET sigNow == EmaAt(macd, ProbeSignal, m)
                 sigBefore == EmaAt(macd, ProbeSignal, m - 1)
             IN  IF RGt(macd[m], sigNow) /\ RLe(macd[m - 1], sigBefore)
                 THEN "bullish"
                 ELSE IF RLt(macd[m], sigNow) /\ RGe(macd[m - 1], sigBefore)
                 THEN "bearish"
                 ELSE "neutral"

\* C20 (as claimed): with enough candles checkMACD returns bullish exactly
\* when the MACD line, EMA fast minus EMA slow at the same candle, crosses
\* above its signal line at the latest candle, bearish on the mirrored
\* condition, neutral otherwise.
C20_MacdCross ==
    (probe.fn = "checkMACD" /\ Len(probe.arg) >= ProbeSlow)
        => probe.out.direction = MacdCrossOf(probe.arg)

(***************************************************************************)
(* calculateEMA: C21.                                                      *)
(***************************************************************************)
\* C21 (as claimed): for a series at least as long as the period,
\* calculateEMA returns an array as long as the series whose entry for
\* candle i (from the period-th candle on) is the EMA at candle i: the
\* average of the first period values, then
\* (price[i] - ema[i-1]) * 2/(period+1) + ema[i-1].
C21_EmaSameLength ==
    (probe.fn = "calculateEMA" /\ Len(probe.arg) >= probe.period)
        => /\ Len(probe.out) = Len(probe.arg)
           /\ \A i \in probe.period..Len(probe.arg) :
                  probe.out[i] = EmaAt(RatsOf(probe.arg), probe.period, i)

(***************************************************************************)
(* checkEMACross: C22.                                                     *)
(***************************************************************************)
\* the EMA of the claim at candle t, which has no value before the
\* period-th candle
EmaRef(data, period, t) ==
    IF t < period THEN RNaN ELSE EmaAt(data, period, t)

\* the result the claim gives at the latest candle of a series of closes
EmaCrossOf(closes) ==
    LET data == RatsOf(closes)
        t == Len(closes)
        fast(k) == EmaRef(data, ProbeFast, k)
        slow(k) == EmaRef(data, ProbeSlow, k)
    IN  IF t < ProbeSlow THEN Result(0, "neutral")
        ELSE IF RGt(fast(t), slow(t)) /\ RLe(fast(t - 1), slow(t - 1))
        THEN Result(75, "bullish")
        ELSE IF RLt(fast(t), slow(t)) /\ RGe(fast(t - 1), slow(t - 1))
        THEN Result(75, "bearish")
        ELSE Result(0, "neutral")

\* the result emitted at the latest candle is the one the cross condition
\* gives (in every state, hence at every candle fed)
CrossAtLatestCandle ==
    probe.out # <<>> => Last(probe.out) = EmaCrossOf(probe.arg)

StrictlyRising(closes) ==
    \A i \in 1..(Len(closes) - 1) : closes[i] < closes[i + 1]

BullishCandles(out) == {k \in 1..Len(out) : out[k].direction = "bullish"}

\* C22 (as claimed): below the slow period checkEMACross is neutral; from
\* it on it is bullish 75 exactly when the fast EMA is above the slow one
\* at the latest candle and was not at the candle before, bearish 75 on the
\* mirrored condition, neutral otherwise; and fed candle by candle with a
\* rising series of full length it is bullish on exactly one candle and
\* neutral on all others.
C22_EmaCrossOnce ==
    probe.fn = "checkEMACross"
        => /\ CrossAtLatestCandle
           /\ (Len(probe.arg) = ProbeCandles /\ StrictlyRising(probe.arg))
                  => /\ Cardinality(BullishCandles(probe.out)) = 1
                     /\ \A k \in 1..Len(probe.out) :
                            k \notin BullishCandles(probe.out)
                                => probe.out[k] = Neutral

\* C22 (amended): the cross condition holds at every candle (with exactly
\* ProbeSlow candles the slow EMA has no earlier value and the result is
\* neutral), and on a series that rises at every candle the fast EMA is
\* above the slow one from the first candle both exist, so every result is
\* neutral.
C22_EmaCross ==
    probe.fn = "checkEMACross"
        => /\ CrossAtLatestCandle
           /\ Len(probe.arg) = ProbeSlow => Last(probe.out) = Neutral
           /\ StrictlyRising(probe.arg)
                  => \A k \in 1..Len(probe.out) : probe.out[k] = Neutral

\* a full series, flat and then rising, with a bullish cross on one candle
\* and a later bearish one
C22_Witness ==
    /\ probe.fn = "checkEMACross"
    /\ Len(probe.arg) = ProbeCandles
    /\ \E k \in 1..Len(probe.out) : \E j \in (k + 1)..Len(probe.out) :
          /\ probe.out[k] = Result(75, "bullish")
          /\ probe.out[j] = Result(75, "bearish")

(***************************************************************************)
(* calculateRSI: C23.                                                      *)
(***************************************************************************)
NoLossUpTo(closes, n) == \A i \in 1..(n - 1) : closes[i] <= closes[i + 1]

\* C23 (as claimed): every value of calculateRSI lies in [0, 100], and a
\* value computed while the smoothed average loss is 0 (no close so far
\* below the one before it) is exactly 100.
C23_RsiBoundedAndFull ==
    probe.fn = "calculateRSI"
        => \A k \in 1..Len(probe.out) :
              /\ RGe(probe.out[k], ToRat(0))
              /\ RLe(probe.out[k], ToRat(100))
              /\ (k > ProbeRsi /\ NoLossUpTo(probe.arg, k + 1))
                     => probe.out[k] = ToRat(100)

(***************************************************************************)
(* Strategy results of options_script.js: C24.                             *)
(***************************************************************************)
\* C24 (as claimed): every result returned by a strategy or indicator has a
\* direction among bullish, bearish and neutral and a confidence in
\* [0, 100] that is 0 exactly when the direction is neutral.
C24_StrategyResult ==
    probe.fn \in {"martingale", "atr", "adx"}
        => /\ probe.out.direction \in {"bullish", "bearish", "neutral"}
           /\ probe.out.confidence \in 0..100
           /\ probe.out.confidence = 0 <=> probe.out.direction = "neutral"

(***************************************************************************)
(* strategyWeights: C25.                                                   *)
(***************************************************************************)
WeightsClamped ==
    \A k \in DOMAIN strategyWeights :
        RGe(strategyWeights[k], Rat(1, 2)) /\ RLe(strategyWeights[k], Rat(3, 2))

\* the entries of the table that a step changes or adds
WeightsWritten ==
    {k \in DOMAIN strategyWeights' :
        k \notin DOMAIN strategyWeights \/ strategyWeights'[k] # strategyWeights[k]}

\* win rate times 1.5 of strategy k over the recent trades, kept in [0.5, 1.5]
ClaimedWeight(k) ==
    LET recent == LastN(tradeHistory, LEARNING_WINDOW)
        of == {i \in 1..Len(recent) : recent[i].strategy = k}
        wins == {i \in of : recent[i].profit}
        scaled == Rat(3 * Cardinality(wins), 2 * Cardinality(of))
    IN  IF RLt(scaled, Rat(1, 2)) THEN Rat(1, 2)
        ELSE IF RGt(scaled, Rat(3, 2)) THEN Rat(3, 2)
        ELSE scaled

\* C25: every entry of strategyWeights lies in [0.5, 1.5] at all times; a
\* step that writes the table is a selfLearning evaluation, and each entry
\* it writes becomes the clamped win rate times 1.5 of that strategy over
\* the recent trades.
C25_WeightsClamped ==
    /\ []WeightsClamped
    /\ [][\A k \in WeightsWritten :
             /\ lastOp'.op = "selfLearning"
             /\ strategyWeights'[k] = ClaimedWeight(k)]_vars

\* selfLearning has run on recent trades that were all losses
C25_Witness ==
    /\ lastOp.op = "selfLearning"
    /\ "combined" \in DOMAIN strategyWeights
    /\ strategyWeights["combined"] = Rat(1, 2)
    /\ \A i \in 1..Len(tradeHistory) : ~tradeHistory[i].profit

(***************************************************************************)
(* The signal cycle and the trade cooldown: C26.                           *)
(***************************************************************************)
ClockEnd == StartNow + MaxClockSteps * TimeUnit

\* the clock readings followed by more than a signal interval of readings
CycleTimes ==
    {t \in {StartNow + k * TimeUnit : k \in 0..MaxClockSteps} :
        t + SIGNAL_INTERVAL_MS < ClockEnd}

\* C26 (as claimed): while ticks keep arriving, a signal cycle run at time
\* t is eventually followed by a later call of generateSignal, whatever
\* trade attempts happen in between.
C26_SignalLive ==
    \A t \in CycleTimes : (generateSignalAt = t) ~> (generateSignalAt > t)

(***************************************************************************)
(* Orders and the instrument they are for: C27.                            *)
(***************************************************************************)
\* C27 (as claimed): an order is submitted only while the displayed signal
\* was computed for the instrument the order is for: after a switch of the
\* instrument no order goes out before a signal cycle has run for the new
\* instrument.
C27_OrderOfOwnSignal ==
    [][Len(orders') > Len(orders)
          => /\ orders'[Len(orders')].symbol = currentInstrument
             /\ signalInstrument = currentInstrument]_vars

(***************************************************************************)
(* Failed orders: C28.                                                     *)
(***************************************************************************)
\* C28 (as claimed): when api.buy rejects or answers without a buy payload,
\* the failure is reported, tradeHistory stays as it is, and the cooldown
\* timestamp is not the one of the failed attempt.
C28_FailedOrderLeavesGate ==
    [][\A i \in pendingBuys \ pendingBuys' :
          lastOp'.branch = "failed"
              => /\ tradeHistory' = tradeHistory
                 /\ lastLog' = "tradeError"
                 /\ lastSignalTime' # orders[i].time]_vars

(***************************************************************************)
(* Reconnection: C30.                                                      *)
(***************************************************************************)
CloseStep == connection' = "closed" /\ connection # "closed"

OpenStep == connection' = "open" /\ connection # "open"

\* min(10000, 2000 * attempt)
ClaimedDelay(attempt) == IF 2000 * attempt < 10000 THEN 2000 * attempt ELSE 10000

\* C30: reconnectAttempts stays within 0..5; a close that follows fewer
\* than five closes since the last open schedules exactly one reconnect,
\* the attempt-th one after min(10000, 2000 * attempt) ms, and no other
\* close schedules any; an open resets the counter to 0.
C30_BoundedReconnect ==
    /\ [](reconnectAttempts \in 0..5)
    /\ [][CloseStep =>
             IF closesSinceOpen < 5
             THEN /\ reconnectAttempts' = closesSinceOpen + 1
                  /\ reconnectTimers' =
                         Append(reconnectTimers,
                                ClaimedDelay(closesSinceOpen + 1))
             ELSE reconnectTimers' = reconnectTimers]_vars
    /\ [][~CloseStep => Len(reconnectTimers') <= Len(reconnectTimers)]_vars
    /\ [][OpenStep => reconnectAttempts' = 0]_vars

\* a sixth close in a row has found the counter at 5 and given up
C30_Witness ==
    /\ lastOp = Op("onclose", "givenUp")
    /\ reconnectAttempts = 5
    /\ closesSinceOpen = 6
    /\ reconnectTimers = <<>>

(***************************************************************************)
(* Requests and authorization: C29.                                        *)
(***************************************************************************)
\* a step that sends getTickHistory, a tick subscription or an order
RequestSent ==
    \/ historyFetches' > historyFetches
    \/ pendingSwitches' \ pendingSwitches # {}
    \/ pendingSubscribes' \ pendingSubscribes # {}
    \/ Len(orders') > Len(orders)

\* C29 (as claimed): a history fetch, a tick subscription or an order is
\* sent on an open connection only once api.authorize has succeeded on that
\* connection with the loginid of the URL; with a parameter missing, or an
\* authorization that failed, none is sent.
C29_AuthorizedBeforeRequests ==
    [][RequestSent
          => /\ urlParams.token # "" /\ urlParams.accountId # ""
             /\ connection' = "open" => authorization' = "ok"]_vars

====
